---- MODULE Spec2Model ----
(***************************************************************************)
(* A* solver for the sliding-tile puzzle (src/puzzle.py).                  *)
(*                                                                         *)
(* The model follows main (lines 224-226): read_puzzle has built           *)
(* my_puzzle, solve runs its loop one iteration per step, print_steps      *)
(* emits the result.  Python objects live in the arena `objs`; an object   *)
(* reference is its index in the arena and None is the reference 0.        *)
(*                                                                         *)
(* The source fixes PUZZLE_WIDTH = 4.  A 4x4 board has 16!/2 arrangements  *)
(* per component, so the board width is an input of the model: every       *)
(* width in 2..MaxWidth is checked, with start grids taken within          *)
(* MaxScramble moves of the solved grid (and their unsolvable twins).      *)
(***************************************************************************)
EXTENDS Integers, Sequences, FiniteSets, TLC

VARIABLES
    PUZZLE_WIDTH,    \* board width (line 6)
    better_h,        \* the heuristic flag handed to solve (BETTER, line 8)
    objs,            \* arena of NumberPuzzle objects; objs[1] is my_puzzle
    queue,           \* PriorityQueue's heap list, of object references
    seen,            \* the set `seen` of solve, of object references
    n,               \* solve's local n: the node popped last (0 before)
    expanded,        \* number of loop iterations that generated successors
    pc,              \* "solve", "loop", "print", "done"
    solution_steps,  \* what solve returned: [none, path]
    out              \* what print_steps printed, one string per print call

vars == <<PUZZLE_WIDTH, better_h, objs, queue, seen, n, expanded, pc,
          solution_steps, out>>

----------------------------------------------------------------------------
(* Bounds of the model *)

MaxWidth == 4
MaxScramble == 4
MaxExpand == 24

(* Program constants *)

BLANK == 0
None == 0

----------------------------------------------------------------------------
(* Board geometry *)

Range == 0 .. (PUZZLE_WIDTH - 1)
NCells == PUZZLE_WIDTH * PUZZLE_WIDTH

Abs(x) == IF x < 0 THEN -x ELSE x

\* F applied to the value of e: e is evaluated once, before F's body
With(e, F(_)) == CHOOSE r \in {F(v) : v \in {e}} : TRUE

\* np.zeros((PUZZLE_WIDTH, PUZZLE_WIDTH))
Zeros == [i \in Range |-> [j \in Range |-> 0]]

\* the constructor: zeros for everything
NewNumberPuzzle ==
    [tiles |-> Zeros, blank_r |-> 0, blank_c |-> 0, parent |-> None,
     dist_from_start |-> 0, key |-> 0]

\* copy(): a fresh object with the grid, the blank and the distance copied
\* and parent set to the copied object `self`; key keeps the constructor's 0
copy(p, self) ==
    [NewNumberPuzzle EXCEPT !.tiles = p.tiles,
                            !.blank_r = p.blank_r,
                            !.blank_c = p.blank_c,
                            !.dist_from_start = p.dist_from_start,
                            !.parent = self]

\* __eq__ : np.array_equal on the tiles only
eq(p, q) == p.tiles = q.tiles

\* __lt__ : smaller key first, on equal keys the larger dist_from_start
lt(p, q) ==
    \/ p.key < q.key
    \/ (p.key = q.key /\ p.dist_from_start > q.dist_from_start)

\* move leaving blank_c as it was
move_stale_column(p, tile_row, tile_column) ==
    LET t1 == [p.tiles EXCEPT ![p.blank_r][p.blank_c] = p.tiles[tile_row][tile_column]]
        t2 == [t1 EXCEPT ![tile_row][tile_column] = BLANK]
    IN [p EXCEPT !.tiles = t2,
                 !.blank_r = tile_row,
                 !.dist_from_start = @ + 1]

\* move(): slide the tile at (tile_row, tile_column) into the blank
move(p, tile_row, tile_column) ==
    LET t1 == [p.tiles EXCEPT ![p.blank_r][p.blank_c] = p.tiles[tile_row][tile_column]]
        t2 == [t1 EXCEPT ![tile_row][tile_column] = BLANK]
    IN [p EXCEPT !.tiles = t2,
                 !.blank_r = tile_row,
                 !.blank_c = tile_column,
                 !.dist_from_start = @ + 1]

----------------------------------------------------------------------------
(* legal_moves(), with the numpy arrays as objects.  The integer fields of *)
(* a NumberPuzzle are values, its tiles are a reference to an array, and   *)
(* move() writes into the array its puzzle refers to.  `arrays` is the     *)
(* array store of one call; arrays[1] is self.tiles.                       *)

\* the array child.tiles refers to after `child.tiles = self.tiles` without
\* np.copy: the very array of self
np_copy_alias(arrays, ref) == [arrays |-> arrays, ref |-> ref]

\* np.copy(self.tiles) of line 67: a new array with the same contents
np_copy(arrays, ref) == [arrays |-> Append(arrays, arrays[ref]), ref |-> Len(arrays) + 1]

\* branches with the second one taking the tile of column 0 instead of the
\* tile next to the blank
branches_column0(p) ==
    <<[test |-> p.blank_r > 0, row |-> p.blank_r - 1, col |-> p.blank_c],
      [test |-> p.blank_c > 0, row |-> p.blank_r, col |-> 0],
      [test |-> p.blank_r < PUZZLE_WIDTH - 1, row |-> p.blank_r + 1, col |-> p.blank_c],
      [test |-> p.blank_c < PUZZLE_WIDTH - 1, row |-> p.blank_r, col |-> p.blank_c + 1]>>

\* branches with the third test one row short
branches_short_rows(p) ==
    <<[test |-> p.blank_r > 0, row |-> p.blank_r - 1, col |-> p.blank_c],
      [test |-> p.blank_c > 0, row |-> p.blank_r, col |-> p.blank_c - 1],
      [test |-> p.blank_r < PUZZLE_WIDTH - 2, row |-> p.blank_r + 1, col |-> p.blank_c],
      [test |-> p.blank_c < PUZZLE_WIDTH - 1, row |-> p.blank_r, col |-> p.blank_c + 1]>>

\* branches with the two column moves exchanged
branches_reordered(p) ==
    <<[test |-> p.blank_r > 0, row |-> p.blank_r - 1, col |-> p.blank_c],
      [test |-> p.blank_c < PUZZLE_WIDTH - 1, row |-> p.blank_r, col |-> p.blank_c + 1],
      [test |-> p.blank_r < PUZZLE_WIDTH - 1, row |-> p.blank_r + 1, col |-> p.blank_c],
      [test |-> p.blank_c > 0, row |-> p.blank_r, col |-> p.blank_c - 1]>>

\* the four tests of legal_moves in order (lines 110, 114, 118, 122), each
\* with the tile it moves into the blank
branches(p) ==
    <<[test |-> p.blank_r > 0, row |-> p.blank_r - 1, col |-> p.blank_c],
      [test |-> p.blank_c > 0, row |-> p.blank_r, col |-> p.blank_c - 1],
      [test |-> p.blank_r < PUZZLE_WIDTH - 1, row |-> p.blank_r + 1, col |-> p.blank_c],
      [test |-> p.blank_c < PUZZLE_WIDTH - 1, row |-> p.blank_r, col |-> p.blank_c + 1]>>

\* one `if` of legal_moves: x_result = self.copy(); x_result.move(row, col);
\* legal.append(x_result).  st = [arrays, legal], legal holding for each
\* result its fields and the reference of its array
branch(st, p, self, b) ==
    IF ~b.test THEN st
    ELSE With(np_copy(st.arrays, 1), LAMBDA c :
         With(copy([p EXCEPT !.tiles = st.arrays[1]], self), LAMBDA child :
         With(move([child EXCEPT !.tiles = c.arrays[c.ref]], b.row, b.col), LAMBDA moved :
            [arrays |-> [c.arrays EXCEPT ![c.ref] = moved.tiles],
             legal |-> Append(st.legal, [fields |-> moved, ref |-> c.ref])])))

\* the whole call: the list returned, the array references of its elements
\* and self as the call leaves it
legal_moves_run(p, self) ==
    With(branches(p), LAMBDA bs :
    With(branch([arrays |-> <<p.tiles>>, legal |-> <<>>], p, self, bs[1]), LAMBDA s1 :
    With(branch(s1, p, self, bs[2]), LAMBDA s2 :
    With(branch(s2, p, self, bs[3]), LAMBDA s3 :
    With(branch(s3, p, self, bs[4]), LAMBDA s4 :
       [legal |-> [k \in 1 .. Len(s4.legal) |->
                     [s4.legal[k].fields EXCEPT !.tiles = s4.arrays[s4.legal[k].ref]]],
        refs |-> [k \in 1 .. Len(s4.legal) |-> s4.legal[k].ref],
        self |-> [p EXCEPT !.tiles = s4.arrays[1]]])))))

\* legal_moves(): the list returned, in the order blank_r-1, blank_c-1,
\* blank_r+1, blank_c+1
legal_moves(p, self) == legal_moves_run(p, self).legal

----------------------------------------------------------------------------
(* solved() and the heuristics scan the grid row-major; cell k is          *)
(* (k \div PUZZLE_WIDTH, k % PUZZLE_WIDTH) and should_be there is          *)
(* (k + 1) % PUZZLE_WIDTH**2.                                              *)

CellAt(t, k) == t[k \div PUZZLE_WIDTH][k % PUZZLE_WIDTH]

\* the scan with should_be counted up without the wrap to 0
RECURSIVE solved_scan_no_wrap(_, _, _)
solved_scan_no_wrap(t, k, should_be) ==
    IF k = NCells THEN TRUE
    ELSE IF CellAt(t, k) # should_be THEN FALSE
    ELSE solved_scan_no_wrap(t, k + 1, should_be + 1)

RECURSIVE solved_scan(_, _, _)
solved_scan(t, k, should_be) ==
    IF k = NCells THEN TRUE
    ELSE IF CellAt(t, k) # should_be THEN FALSE
    ELSE solved_scan(t, k + 1, (should_be + 1) % NCells)

\* solved answering after the first cell alone
solved_first_cell(p) == CellAt(p.tiles, 0) = 1

solved(p) == solved_scan(p.tiles, 0, 1)

RECURSIVE mismatch_scan(_, _, _)
mismatch_scan(t, k, should_be) ==
    IF k = NCells THEN 0
    ELSE (IF CellAt(t, k) # should_be THEN 1 ELSE 0)
         + mismatch_scan(t, k + 1, (should_be + 1) % NCells)

tile_mismatch_heuristic(p) == mismatch_scan(p.tiles, 0, 1)

\* the test line 210 is after: the tile is not the blank
DiffersFromBlank(v) == v # BLANK

\* line 210 compares a number of the float array with the string '-': they
\* are never equal, whatever the number, so the test passes for the blank too
DiffersFromDash(v) == TRUE

\* divmod(v - 1, PUZZLE_WIDTH) floors, as \div and % do: divmod(-1, 4) = (-1, 3)
RECURSIVE manhattan_scan(_, _)
manhattan_scan(t, k) ==
    IF k = NCells THEN 0
    ELSE LET i == k \div PUZZLE_WIDTH
             j == k % PUZZLE_WIDTH
             x == (t[i][j] - 1) \div PUZZLE_WIDTH
             y == (t[i][j] - 1) % PUZZLE_WIDTH
         IN (IF DiffersFromDash(t[i][j]) THEN Abs(x - i) + Abs(y - j) ELSE 0)
            + manhattan_scan(t, k + 1)

manhattan_heuristic(p) == manhattan_scan(p.tiles, 0)

heuristic(p, flag) ==
    IF flag THEN manhattan_heuristic(p) ELSE tile_mismatch_heuristic(p)

----------------------------------------------------------------------------
(* The frontier.  PriorityQueue.put is heapq.heappush and PriorityQueue.get *)
(* is heapq.heappop on the list `queue`; both order the entries with        *)
(* __lt__ alone.  Positions are 0-based as in heapq.                        *)

At(h, pos) == h[pos + 1]
Put(h, pos, item) == [h EXCEPT ![pos + 1] = item]

\* heapq._siftdown(heap, startpos, pos), the loop after newitem = heap[pos]
RECURSIVE siftdown_loop(_, _, _, _, _)
siftdown_loop(o, h, newitem, startpos, pos) ==
    IF pos > startpos
    THEN LET parentpos == (pos - 1) \div 2
             parent == At(h, parentpos)
         IN IF lt(o[newitem], o[parent])
            THEN With(Put(h, pos, parent),
                      LAMBDA h2 : siftdown_loop(o, h2, newitem, startpos, parentpos))
            ELSE Put(h, pos, newitem)
    ELSE Put(h, pos, newitem)

siftdown(o, h, startpos, pos) == siftdown_loop(o, h, At(h, pos), startpos, pos)

\* heapq._siftup(heap, pos): bubble the smaller child up to a leaf, then
\* sift newitem down from there
RECURSIVE siftup_loop(_, _, _, _, _)
siftup_loop(o, h, newitem, startpos, pos) ==
    LET endpos == Len(h)
        childpos == 2 * pos + 1
        rightpos == childpos + 1
        child == IF rightpos < endpos /\ ~lt(o[At(h, childpos)], o[At(h, rightpos)])
                 THEN rightpos ELSE childpos
    IN IF childpos < endpos
       THEN With(<<Put(h, pos, At(h, child)), child>>,
                 LAMBDA a : siftup_loop(o, a[1], newitem, startpos, a[2]))
       ELSE siftdown(o, Put(h, pos, newitem), startpos, pos)

siftup(o, h, pos) == siftup_loop(o, h, At(h, pos), pos, pos)

\* queue.put(item): heap.append(item); _siftdown(heap, 0, len(heap) - 1)
queue_put(o, h, item) == siftdown(o, Append(h, item), 0, Len(h))

\* queue.get(): [the entry returned, the heap left]
queue_get(o, h) ==
    LET lastelt == h[Len(h)]
        rest == SubSeq(h, 1, Len(h) - 1)
    IN IF rest # <<>>
       THEN [item |-> rest[1], heap |-> siftup(o, Put(rest, 0, lastelt), 0)]
       ELSE [item |-> lastelt, heap |-> rest]

----------------------------------------------------------------------------
(* solve's helpers *)

\* membership by object identity, as without __eq__ and __hash__
in_seen_by_identity(o, ref, s) == ref \in s

\* the membership test made after n was added to seen
in_seen_after_add(o, ref, s) == \E m \in s \cup {ref} : eq(o[ref], o[m])

\* `n in seen`: set membership by __hash__ and __eq__, that is by the tiles
in_seen(o, ref, s) == \E m \in s : eq(o[ref], o[m])

\* successor with the key left without the distance term
successor_key_without_dist(state, nref, flag) ==
    LET s0 == copy(state, None)
        s1 == [s0 EXCEPT !.dist_from_start = @ + 1]
        s2 == [s1 EXCEPT !.parent = nref]
    IN [s2 EXCEPT !.key = heuristic(s2, flag)]

\* lines 160-163: the node built for one element `state` of n.legal_moves();
\* state.copy() carries state's dist_from_start (already incremented by
\* move), and its parent is replaced by n on line 162
successor(state, nref, flag) ==
    LET s0 == copy(state, None)
        s1 == [s0 EXCEPT !.dist_from_start = @ + 1]
        s2 == [s1 EXCEPT !.parent = nref]
    IN [s2 EXCEPT !.key = heuristic(s2, flag) + s2.dist_from_start]

\* lines 159-164: the for loop; [objs, queue] after all puts
RECURSIVE expand_loop(_, _, _, _, _)
expand_loop(o, h, states, nref, flag) ==
    IF states = <<>> THEN [objs |-> o, queue |-> h]
    ELSE With(Append(o, successor(Head(states), nref, flag)),
              LAMBDA o2 : With(queue_put(o2, h, Len(o2)),
                  LAMBDA h2 : expand_loop(o2, h2, Tail(states), nref, flag)))

\* find_path's while loop: append n while n.parent is set
RECURSIVE path_walk(_, _, _)
path_walk(o, ref, path) ==
    IF o[ref].parent # None
    THEN path_walk(o, o[ref].parent, Append(path, ref))
    ELSE path

\* find_path(): `o` already holds the copy of self, at reference `cref`
find_path(o, cref) == path_walk(o, cref, <<>>)

----------------------------------------------------------------------------
(* __str__ and print_steps *)

token(v) == IF v = BLANK THEN "-" ELSE ToString(v)

RECURSIVE str_row(_, _, _)
str_row(t, i, j) ==
    IF j = PUZZLE_WIDTH THEN "\n"
    ELSE (IF j > 0 THEN " " ELSE "") \o token(t[i][j]) \o str_row(t, i, j + 1)

RECURSIVE str_rows(_, _)
str_rows(t, i) ==
    IF i = PUZZLE_WIDTH THEN "" ELSE str_row(t, i, 0) \o str_rows(t, i + 1)

str(p) == str_rows(p.tiles, 0)

print_steps(o, steps) ==
    IF steps.none THEN <<"No path found">>
    ELSE [k \in 1 .. Len(steps.path) |-> str(o[steps.path[k]])]

----------------------------------------------------------------------------
(* The inputs: what read_puzzle can hand to solve.  These definitions are  *)
(* about the puzzle itself, independent of the solver's code.              *)

Cells == Range \X Range

GoalGrid == [i \in Range |-> [j \in Range |-> (i * PUZZLE_WIDTH + j + 1) % NCells]]

BlankCell(t) == CHOOSE c \in Cells : t[c[1]][c[2]] = BLANK

SwapCells(t, a, b) ==
    [i \in Range |-> [j \in Range |->
        IF <<i, j>> = a THEN t[b[1]][b[2]]
        ELSE IF <<i, j>> = b THEN t[a[1]][a[2]]
        ELSE t[i][j]]]

\* the grids one single-tile move away from t
Slides(t) ==
    LET b == BlankCell(t)
    IN {SwapCells(t, b, c) :
           c \in {d \in Cells : Abs(d[1] - b[1]) + Abs(d[2] - b[2]) = 1}}

RECURSIVE Within(_, _)
Within(S, k) ==
    IF k = 0 THEN S ELSE Within(S \cup UNION {Slides(t) : t \in S}, k - 1)

\* t with the values a and b exchanged
Transpose(t, a, b) ==
    [i \in Range |-> [j \in Range |->
        IF t[i][j] = a THEN b ELSE IF t[i][j] = b THEN a ELSE t[i][j]]]

\* the solved grid with its last two tiles swapped, the blank still last
LastTwoSwapped == Transpose(GoalGrid, NCells - 2, NCells - 1)

Scrambles == Within({GoalGrid}, MaxScramble)

StartGrids ==
    Scrambles \cup {Transpose(t, 1, 2) : t \in Scrambles} \cup {LastTwoSwapped}

\* A grid is solvable iff the parity of its arrangement (blank counted as
\* the largest value) equals the parity of the blank's distance from the
\* last cell: every move is one transposition and moves the blank one cell.
Rank(v) == IF v = BLANK THEN NCells ELSE v
Inversions(t) ==
    Cardinality({p \in (0 .. NCells - 1) \X (0 .. NCells - 1) :
        p[1] < p[2] /\ Rank(CellAt(t, p[1])) > Rank(CellAt(t, p[2]))})
Solvable(t) ==
    LET b == BlankCell(t)
    IN Inversions(t) % 2
       = ((PUZZLE_WIDTH - 1 - b[1]) + (PUZZLE_WIDTH - 1 - b[2])) % 2

\* the minimum number of single-tile moves from t to the solved grid, by
\* breadth-first search (t solvable)
RECURSIVE BfsDepth(_, _, _)
BfsDepth(frontier, visited, d) ==
    IF GoalGrid \in frontier THEN d
    ELSE LET next == (UNION {Slides(t) : t \in frontier}) \ visited
         IN BfsDepth(next, visited \cup next, d + 1)
MinMoves(t) == BfsDepth({t}, {t}, 0)

\* read_puzzle(): the grid read, with blank_r, blank_c where the "-" stood
read_puzzle(t) ==
    [NewNumberPuzzle EXCEPT !.tiles = t,
                            !.blank_r = BlankCell(t)[1],
                            !.blank_c = BlankCell(t)[2]]

----------------------------------------------------------------------------
(* The program *)

NotReturned == [none |-> FALSE, path |-> <<>>]

Init ==
    /\ PUZZLE_WIDTH \in 2 .. MaxWidth
    /\ better_h \in BOOLEAN
    /\ \E t \in StartGrids : objs = <<read_puzzle(t)>>
    /\ queue = <<>>
    /\ seen = {}
    /\ n = None
    /\ expanded = 0
    /\ pc = "solve"
    /\ solution_steps = NotReturned
    /\ out = <<>>

\* lines 132-140: key of self, the queue with a copy of self, the empty set
SolveBegin ==
    /\ pc = "solve"
    /\ \E self \in {[objs[1] EXCEPT !.key = heuristic(objs[1], better_h)
                                            + objs[1].dist_from_start]} :
       \E o \in {<<self, copy(self, 1)>>} :
          /\ objs' = o
          /\ queue' = queue_put(o, <<>>, 2)
    /\ seen' = {}
    /\ pc' = "loop"
    /\ UNCHANGED <<PUZZLE_WIDTH, better_h, n, expanded, solution_steps, out>>

\* lines 142-147: the popped node is solved; return n.find_path()
LoopSolved ==
    /\ pc = "loop"
    /\ Len(queue) > 0
    /\ \E got \in {queue_get(objs, queue)} :
       \E o \in {Append(objs, copy(objs[got.item], got.item))} :
          /\ solved(objs[got.item])
          /\ n' = got.item
          /\ queue' = got.heap
          /\ objs' = o
          /\ solution_steps' = [none |-> FALSE, path |-> find_path(o, Len(o))]
    /\ pc' = "print"
    /\ UNCHANGED <<PUZZLE_WIDTH, better_h, seen, expanded, out>>

\* lines 142-150: the popped node is in seen; continue
LoopSeen ==
    /\ pc = "loop"
    /\ Len(queue) > 0
    /\ \E got \in {queue_get(objs, queue)} :
          /\ ~solved(objs[got.item])
          /\ in_seen(objs, got.item, seen)
          /\ n' = got.item
          /\ queue' = got.heap
    /\ UNCHANGED <<PUZZLE_WIDTH, better_h, objs, seen, expanded, pc,
                   solution_steps, out>>

\* lines 142-164: the popped node is new; the loop of lines 151-153 only
\* continues itself and changes nothing; add n to seen, put its successors
LoopExpand ==
    /\ pc = "loop"
    /\ Len(queue) > 0
    /\ expanded < MaxExpand
    /\ \E got \in {queue_get(objs, queue)} :
          /\ ~solved(objs[got.item])
          /\ ~in_seen(objs, got.item, seen)
          /\ \E run \in {legal_moves_run(objs[got.item], got.item)} :
             \E after \in {expand_loop([objs EXCEPT ![got.item] = run.self],
                                      got.heap, run.legal, got.item, better_h)} :
                /\ objs' = after.objs
                /\ queue' = after.queue
          /\ n' = got.item
          /\ seen' = seen \cup {got.item}
    /\ expanded' = expanded + 1
    /\ UNCHANGED <<PUZZLE_WIDTH, better_h, pc, solution_steps, out>>

\* line 166: the queue is empty; return None
ReturnNone ==
    /\ pc = "loop"
    /\ Len(queue) = 0
    /\ solution_steps' = [none |-> TRUE, path |-> <<>>]
    /\ pc' = "print"
    /\ UNCHANGED <<PUZZLE_WIDTH, better_h, objs, queue, seen, n, expanded, out>>

\* line 226: print_steps(solution_steps)
PrintSteps ==
    /\ pc = "print"
    /\ out' = print_steps(objs, solution_steps)
    /\ pc' = "done"
    /\ UNCHANGED <<PUZZLE_WIDTH, better_h, objs, queue, seen, n, expanded,
                   solution_steps>>

\* lines 142-166 as a function: the number of nodes solve expands from the
\* arena o, the heap h and the set s, with e expanded so far
RECURSIVE solve_loop(_, _, _, _, _)
solve_loop(o, h, s, e, flag) ==
    IF Len(h) = 0 THEN e
    ELSE LET got == queue_get(o, h)
         IN IF solved(o[got.item]) THEN e
            ELSE IF in_seen(o, got.item, s) THEN solve_loop(o, got.heap, s, e, flag)
            ELSE LET run == legal_moves_run(o[got.item], got.item)
                     after == expand_loop([o EXCEPT ![got.item] = run.self],
                                          got.heap, run.legal, got.item, flag)
                 IN solve_loop(after.objs, after.queue, s \cup {got.item}, e + 1, flag)

\* the number of nodes my_puzzle.solve(flag) expands on the grid t
solve_expansions(t, flag) ==
    LET self == [read_puzzle(t) EXCEPT !.key = heuristic(read_puzzle(t), flag)]
        o == <<self, copy(self, 1)>>
    IN solve_loop(o, queue_put(o, <<>>, 2), {}, 0, flag)

Next ==
    \/ SolveBegin
    \/ LoopSolved
    \/ LoopSeen
    \/ LoopExpand
    \/ ReturnNone
    \/ PrintSteps

Spec == Init /\ [][Next]_vars

\* the interpreter runs the program on: a step that can be taken is taken
FairSpec == Spec /\ WF_vars(Next)

----------------------------------------------------------------------------
(* Vocabulary of the properties *)

Start == objs[1].tiles
Returned == pc \in {"print", "done"}
PathFound == Returned /\ ~solution_steps.none
NoPath == Returned /\ solution_steps.none
Path == solution_steps.path
GridOf(ref) == objs[ref].tiles

\* the number of moves on a node's parent chain back to the start node
\* that solve put in the queue (object 2)
RECURSIVE Depth(_)
Depth(ref) == IF ref = 2 THEN 0 ELSE 1 + Depth(objs[ref].parent)

\* the nodes solve has created for the frontier: the start copy and every
\* successor (find_path's copy comes last, once a path is returned)
FrontierNodes == 2 .. (IF PathFound THEN Len(objs) - 1 ELSE Len(objs))
Successors == FrontierNodes \ {2}

\* what __str__ gives for a grid
StrOf(t) == str_rows(t, 0)

----------------------------------------------------------------------------
(* C1: for every solvable start grid and with either heuristic, the number *)
(* of moves of the solution solve finds (the moves on the goal node's      *)
(* parent chain) is the minimum number of single-tile moves from the start *)
(* grid to the solved grid, so both heuristics give the same number.       *)
C1_OptimalLength ==
    (PathFound /\ Solvable(Start)) => Depth(n) = MinMoves(Start)

C1_Witness ==
    /\ pc = "done" /\ PathFound /\ PUZZLE_WIDTH = 4 /\ ~better_h
    /\ Depth(n) = 4 /\ MinMoves(Start) = 4

(* C2: when the start grid is already solved, solve returns an empty path. *)
C2_SolvedStartEmptyPath ==
    (Returned /\ Start = GoalGrid) => (~solution_steps.none /\ Path = <<>>)

C5_SolvableTerminatesWithPath ==
    (pc = "solve" /\ Solvable(Start)) ~> (pc = "done" /\ ~solution_steps.none)

C5_Witness ==
    /\ pc = "done" /\ Solvable(Start) /\ ~solution_steps.none
    /\ expanded >= 5 /\ solved(objs[n])

(* C6: in every returned path, each pair of consecutive states differs by  *)
(* exactly one swap of a tile with the orthogonally adjacent blank.        *)
C6_ConsecutiveOneMove ==
    PathFound
        => \A k \in 1 .. (Len(Path) - 1) :
              GridOf(Path[k + 1]) \in Slides(GridOf(Path[k]))

(* C7: every successor solve inserts has dist_from_start equal to its      *)
(* parent's plus exactly 1, hence equal to the number of moves on its      *)
(* parent chain back to the start.                                         *)
C7_CostIsParentPlusOne ==
    \A k \in Successors :
        /\ objs[k].dist_from_start = objs[objs[k].parent].dist_from_start + 1
        /\ objs[k].dist_from_start = Depth(k)

(* C8: the path returned for a solution of k moves consists of exactly the *)
(* k states reached after each move: the start state is not emitted and    *)
(* the goal state appears exactly once.                                    *)
C8_PathIsTheKStates ==
    PathFound
        => /\ Len(Path) = Depth(n)
           /\ \A k \in 1 .. Len(Path) : Path[k] \notin {1, 2}
           /\ Cardinality({k \in 1 .. Len(Path) : GridOf(Path[k]) = GoalGrid}) = 1

(* C9: the boards of a returned path are printed in the order they occur   *)
(* along the solution: the first board printed is one move from the start  *)
(* and the last board printed is the solved grid.                          *)
C9_PrintedStartToGoal ==
    (pc = "done" /\ ~solution_steps.none /\ Depth(n) >= 1)
        => /\ Len(out) >= 1
           /\ out[1] \in {StrOf(t) : t \in Slides(Start)}
           /\ out[Len(out)] = StrOf(GoalGrid)

(* C10: for every solvable state the Manhattan-distance heuristic value is *)
(* at most the true minimum number of moves to the solved grid; it is 0 on *)
(* the solved grid.                                                        *)
C10_ManhattanAdmissible ==
    (pc # "solve" /\ better_h /\ Solvable(Start))
        => /\ objs[1].key <= MinMoves(Start)
           /\ Start = GoalGrid => objs[1].key = 0

----------------------------------------------------------------------------
(* Vocabulary of the move generator's properties *)

\* the in-bounds orthogonal neighbours of cell b: above, left, below, right
NeighbourCells(b) ==
    SelectSeq(<<<<b[1] - 1, b[2]>>, <<b[1], b[2] - 1>>,
                <<b[1] + 1, b[2]>>, <<b[1], b[2] + 1>>>>,
              LAMBDA c : c \in Cells)

OnBorder(x) == x = 0 \/ x = PUZZLE_WIDTH - 1
Corner(b) == OnBorder(b[1]) /\ OnBorder(b[2])
Interior(b) == ~OnBorder(b[1]) /\ ~OnBorder(b[2])
MovesAt(b) == IF Corner(b) THEN 2 ELSE IF Interior(b) THEN 4 ELSE 3

BlankOf(p) == <<p.blank_r, p.blank_c>>
ValidGrid(t) == {CellAt(t, k) : k \in 0 .. (NCells - 1)} = 0 .. (NCells - 1)

\* the node popped last was not solved and the loop went on
PoppedInLoop == pc = "loop" /\ n # None

\* the objects made by the last step: my_puzzle and the queued start copy,
\* the successors of the node just expanded, find_path's copy of the goal.
\* Every object of the arena is one of these in the state after the step
\* that made it, and no step changes an object made before.
Fresh(k) == k <= 2 \/ objs[k].parent = n

----------------------------------------------------------------------------
(* C11: for every solvable state the mismatch-count heuristic value is at  *)
(* most the true minimum number of moves to the solved grid.               *)
C11_MismatchAdmissible ==
    (pc # "solve" /\ ~better_h /\ Solvable(Start))
        => objs[1].key <= MinMoves(Start)

(* C12: for every valid grid the Manhattan-distance heuristic value is     *)
(* greater than or equal to the mismatch-count heuristic value.            *)
C12_ManhattanDominatesMismatch ==
    \A k \in 1 .. Len(objs) :
        Fresh(k) =>
            manhattan_heuristic(objs[k]) >= tile_mismatch_heuristic(objs[k])

C12_Witness ==
    /\ expanded >= 3
    /\ \E k \in 1 .. Len(objs) :
          /\ ValidGrid(GridOf(k))
          /\ tile_mismatch_heuristic(objs[k]) >= 4
          /\ manhattan_heuristic(objs[k]) >= tile_mismatch_heuristic(objs[k])

(* C13: for every solvable start grid, solve expands no more nodes with    *)
(* the Manhattan-distance heuristic than with the mismatch-count one.      *)
C13_ManhattanExpandsNoMore ==
    (pc = "done" /\ better_h /\ Solvable(Start))
        => expanded <= solve_expansions(Start, FALSE)

(* C14: solved() is true exactly for the grid 1, 2, ..., N-1, blank read   *)
(* row-major, and false for every other grid, including the solved grid    *)
(* with two adjacent values (or two adjacent cells) transposed.            *)
C14_SolvedExactlyGoal ==
    /\ \A k \in 1 .. Len(objs) :
          Fresh(k) => (solved(objs[k]) <=> GridOf(k) = GoalGrid)
    /\ pc = "solve" =>
          /\ solved(read_puzzle(GoalGrid))
          /\ \A a \in 0 .. (NCells - 2) :
                ~solved(read_puzzle(Transpose(GoalGrid, a, a + 1)))
          /\ \A c \in Cells : \A k \in 1 .. Len(NeighbourCells(c)) :
                ~solved(read_puzzle(SwapCells(GoalGrid, c, NeighbourCells(c)[k])))

C14_Witness ==
    /\ PathFound /\ expanded >= 3
    /\ solved(objs[n]) /\ ~solved(objs[1]) /\ ValidGrid(Start)

(* C15: legal_moves returns exactly 2 successors when the blank is in a    *)
(* corner, 3 on a non-corner edge and 4 in the interior, each the input    *)
(* grid with the blank swapped with a distinct in-bounds neighbour.        *)
C15_LegalMovesCount ==
    PoppedInLoop
        => LET legal == legal_moves(objs[n], n)
               grids == {legal[k].tiles : k \in 1 .. Len(legal)}
           IN /\ Len(legal) = MovesAt(BlankOf(objs[n]))
              /\ Cardinality(grids) = Len(legal)
              /\ grids = Slides(GridOf(n))

C15_Witness ==
    /\ PoppedInLoop /\ n \in seen /\ Interior(BlankOf(objs[n]))
    /\ Len(legal_moves(objs[n], n)) = 4
    /\ Cardinality({k \in 1 .. Len(objs) : objs[k].parent = n}) = 4

(* C16: legal_moves never mutates the state it is called on (grid, blank   *)
(* coordinates and dist_from_start are the same before and after), no      *)
(* successor shares its array with the input, and no node already created  *)
(* changes when a node is expanded.                                        *)
C16_LegalMovesLeavesInput ==
    [][expanded' = expanded + 1
        => /\ objs'[n'] = objs[n']
           /\ \A k \in 2 .. Len(objs) : objs'[k] = objs[k]
           /\ LET run == legal_moves_run(objs[n'], n')
              IN /\ run.self = objs[n']
                 /\ \A k \in 1 .. Len(run.refs) : run.refs[k] # 1
                 /\ \A k \in 1 .. Len(run.legal) : run.legal[k].tiles # GridOf(n')]_vars

C16_Witness ==
    /\ PoppedInLoop /\ n \in seen /\ expanded >= 2
    /\ \E k \in 1 .. Len(objs) : objs[k].parent = n /\ GridOf(k) # GridOf(n)

(* C17: during one run no grid is expanded more than once: the grids of    *)
(* seen are pairwise different, one per expansion, every node with         *)
(* successors is in seen, and a popped node whose grid is in seen is       *)
(* dropped without creating a node or changing seen.                       *)
C17_NoGridExpandedTwice ==
    /\ [](/\ \A a, b \in seen : a # b => GridOf(a) # GridOf(b)
          /\ Cardinality(seen) = expanded
          /\ \A k \in Successors : objs[k].parent \in seen)
    /\ [][(pc = "loop" /\ pc' = "loop")
            => IF in_seen(objs, n', seen)
               THEN objs' = objs /\ seen' = seen /\ expanded' = expanded
               ELSE seen' = seen \cup {n'} /\ expanded' = expanded + 1]_vars

C17_Witness ==
    /\ PoppedInLoop /\ n \notin seen /\ ~solved(objs[n])
    /\ in_seen(objs, n, seen) /\ expanded >= 2

(* C18: every node in the frontier, the start node included, carries key   *)
(* equal to heuristic(node) + dist_from_start(node).                       *)
C18_KeyIsHeuristicPlusCost ==
    \A i \in 1 .. Len(queue) :
        objs[queue[i]].key
            = heuristic(objs[queue[i]], better_h) + objs[queue[i]].dist_from_start

(* C19: legal_moves returns its successors in the order blank moved to the *)
(* cell above, then left, then below, then right, leaving out the ones     *)
(* out of bounds.                                                          *)
C19_LegalMovesOrder ==
    PoppedInLoop
        => LET legal == legal_moves(objs[n], n)
               cells == NeighbourCells(BlankOf(objs[n]))
           IN /\ Len(legal) = Len(cells)
              /\ \A k \in 1 .. Len(legal) :
                    /\ BlankOf(legal[k]) = cells[k]
                    /\ legal[k].tiles = SwapCells(GridOf(n), BlankOf(objs[n]), cells[k])

C19_Witness ==
    /\ PoppedInLoop /\ n \in seen /\ PUZZLE_WIDTH = 4
    /\ BlankOf(objs[n]) = <<1, 2>>
    /\ Len(legal_moves(objs[n], n)) = 4

(* C20: every node solve creates has a grid holding each value 0..N-1      *)
(* exactly once and blank coordinates pointing at the blank.               *)
C20_GridsValidBlankCached ==
    \A k \in 1 .. Len(objs) :
        /\ ValidGrid(GridOf(k))
        /\ GridOf(k)[objs[k].blank_r][objs[k].blank_c] = BLANK

C20_Witness ==
    /\ pc = "done" /\ PathFound /\ Len(objs) >= 10
    /\ \E k \in 3 .. Len(objs) : BlankOf(objs[k]) # BlankOf(objs[1])

====
